---- MODULE Spec2Model ----
(***************************************************************************)
(* Model of src/app.py: the retrieval functions (keyword_search,           *)
(* semantic_search, consine_similarity), the lazy loader load_documents,   *)
(* generate_answer and the /api/chat handler, with the two Gemini calls    *)
(* (embed_content, generate_content) as nondeterministic external calls.   *)
(*                                                                         *)
(* A Python str is modelled as a sequence of one-character strings, a      *)
(* Python list as a sequence.                                              *)
(***************************************************************************)
EXTENDS Integers, Sequences, FiniteSets, TLC

VARIABLES
    docsFile,        \* content of yardstick_docs.json (or Missing)
    embFile,         \* content of yardstick_embeddings.json (or Missing / Malformed)
    documents,       \* global documents (app.py:19)
    doc_embeddings,  \* global doc_embeddings (app.py:20)
    call,            \* the last direct call of a retrieval function and what it returned
    pc,              \* per worker thread: where its request stands
    loc,             \* per worker thread: the locals of its request
    resp,            \* per worker thread: the HTTP response of its last request
    obs,             \* per worker thread: what its last request did (history)
    served,          \* (normalized query, answer) of every 200 response so far (history)
    nreq,            \* requests received so far
    docReads,        \* times yardstick_docs.json was parsed into documents (history)
    firstLoad        \* the globals as the first completed load_documents call left them (history)

globals == <<docsFile, embFile, documents, doc_embeddings>>
procVars == <<pc, loc, resp, obs, served, nreq, docReads, firstLoad>>
vars == <<globals, call, procVars>>

\* A value that may be None is a tuple: <<>> for None, <<x>> for the value x.
None == <<>>
Some(x) == <<x>>
Get(o) == o[1]

\* A file is absent, unparsable as JSON, or holds a parsed content.
Missing == [status |-> "missing"]
Malformed == [status |-> "malformed"]
File(content) == [status |-> "ok", content |-> content]

\* ------------------------------------------------------------------ bounds
MaxDocs == 2        \* documents in a corpus
MaxK == 3           \* largest k a direct call passes
LongDoc == 21       \* length of the longest one-letter document
ManyTokens == 10    \* keywords in the longest query
MaxRequests == 2    \* requests a process receives

\* --------------------------------------------------------------- str model
Min(a, b) == IF a <= b THEN a ELSE b

\* str.lower() on one character
LowerChar(c) == CASE c = "A" -> "a" [] c = "B" -> "b" [] OTHER -> c

\* str.lower()
Lower(s) == [i \in 1..Len(s) |-> LowerChar(s[i])]

IsSpace(c) == c = " "

RECURSIVE SplitFrom(_, _, _)
\* str.split(): the maximal runs of non-whitespace characters, in order
SplitFrom(s, i, cur) ==
    IF i > Len(s)
    THEN IF cur = <<>> THEN <<>> ELSE <<cur>>
    ELSE IF IsSpace(s[i])
         THEN (IF cur = <<>> THEN <<>> ELSE <<cur>>) \o SplitFrom(s, i + 1, <<>>)
         ELSE SplitFrom(s, i + 1, Append(cur, s[i]))

Split(s) == SplitFrom(s, 1, <<>>)

\* sub occurs in s starting at position i
MatchAt(s, sub, i) ==
    /\ i + Len(sub) - 1 <= Len(s)
    /\ \A j \in 1..Len(sub) : s[i + j - 1] = sub[j]

\* the Python expression  sub in s
Contains(s, sub) == \E i \in 1..(Len(s) + 1) : MatchAt(s, sub, i)

RECURSIVE CountFrom(_, _, _)
\* str.count(sub) for a non-empty sub: non-overlapping occurrences, left to right
CountFrom(s, sub, i) ==
    IF i + Len(sub) - 1 > Len(s) THEN 0
    ELSE IF MatchAt(s, sub, i)
         THEN 1 + CountFrom(s, sub, i + Len(sub))
         ELSE CountFrom(s, sub, i + 1)

Count(s, sub) == CountFrom(s, sub, 1)

RECURSIVE StripLeft(_)
StripLeft(s) == IF s # <<>> /\ IsSpace(s[1]) THEN StripLeft(Tail(s)) ELSE s

RECURSIVE StripRight(_)
StripRight(s) ==
    IF s # <<>> /\ IsSpace(s[Len(s)]) THEN StripRight(SubSeq(s, 1, Len(s) - 1)) ELSE s

\* str.strip()
Strip(s) == StripLeft(StripRight(s))

\* n copies of the character c
Run(c, n) == [i \in 1..n |-> c]

\* n copies of the character c separated by single spaces
Spaced(c, n) == [i \in 1..(2 * n - 1) |-> IF i % 2 = 1 THEN c ELSE " "]

\* ------------------------------------------------------------ list.sort
\* Python's tuple order on (score, index) pairs
PairLess(p, q) == p[1] < q[1] \/ (p[1] = q[1] /\ p[2] < q[2])

RECURSIVE InsertDesc(_, _)
InsertDesc(p, sorted) ==
    IF sorted = <<>> THEN <<p>>
    ELSE IF PairLess(Head(sorted), p)
         THEN <<p>> \o sorted
         ELSE <<Head(sorted)>> \o InsertDesc(p, Tail(sorted))

RECURSIVE SortDesc(_)
\* list.sort(reverse=True) on (score, index) pairs
SortDesc(pairs) ==
    IF pairs = <<>> THEN <<>> ELSE InsertDesc(Head(pairs), SortDesc(Tail(pairs)))

\* the Python slice xs[:k] for k >= 0
Take(xs, k) == SubSeq(xs, 1, Min(k, Len(xs)))

\* --------------------------------------------------------- keyword_search
Bonus == 100

RECURSIVE SumCounts(_, _)
\* sum(doc_lower.count(kw) for kw in keywords)
SumCounts(doc_lower, keywords) ==
    IF keywords = <<>> THEN 0
    ELSE Count(doc_lower, Head(keywords)) + SumCounts(doc_lower, Tail(keywords))

\* keywords = query.lower().split(); the occurrence count of app.py:81
KwCount(query, doc) == SumCounts(Lower(doc), Split(Lower(query)))

\* query.lower() in doc_lower (app.py:82)
HasPhrase(query, doc) == Contains(Lower(doc), Lower(query))

\* a scoring that forgets the exact-phrase bonus
ScoreNoBonus(query, doc) == KwCount(query, doc)

\* the score keyword_search gives one document (app.py:80-83)
Score(query, doc) ==
    IF HasPhrase(query, doc) THEN KwCount(query, doc) + Bonus ELSE KwCount(query, doc)

RECURSIVE ScoredAllFrom(_, _, _)
\* a loop that appends every document, whatever its score
ScoredAllFrom(docs, query, i) ==
    IF i >= Len(docs) THEN <<>>
    ELSE <<<<Score(query, docs[i + 1]), i>>>> \o ScoredAllFrom(docs, query, i + 1)

RECURSIVE ScoredFrom(_, _, _)
\* the list scored after the loop (app.py:79-85); i is the 0-based Python index
ScoredFrom(docs, query, i) ==
    IF i >= Len(docs) THEN <<>>
    ELSE LET score == Score(query, docs[i + 1])
         IN  (IF score > 0 THEN <<<<score, i>>>> ELSE <<>>)
             \o ScoredFrom(docs, query, i + 1)

\* scored[:k] after scored.sort(reverse=True) (app.py:87-88)
KeywordRanked(docs, query, k) == Take(SortDesc(ScoredFrom(docs, query, 0)), k)

\* keyword_search(query, k) once documents are loaded
keyword_search(docs, query, k) ==
    LET top == KeywordRanked(docs, query, k)
    IN  [r \in 1..Len(top) |-> docs[top[r][2] + 1]]

\* ------------------------------------------------------ consine_similarity
RECURSIVE Dot(_, _)
\* sum(x*y for x,y in zip(a,b)): zip stops at the shorter vector
Dot(a, b) ==
    IF a = <<>> \/ b = <<>> THEN 0 ELSE Head(a) * Head(b) + Dot(Tail(a), Tail(b))

\* x*|x|: strictly increasing in x, so it orders like x
SignedSquare(x) == IF x >= 0 THEN x * x ELSE -(x * x)

\* consine_similarity(a, b) (app.py:37-45).  The value dot/(|a|*|b|) is kept
\* exactly, as the pair (num, den) standing for num/sqrt(den) with den > 0;
\* it is 0 when either magnitude is 0.
consine_similarity(a, b) ==
    LET dot_product == Dot(a, b)
        magnitude_a2 == Dot(a, a)
        magnitude_b2 == Dot(b, b)
    IN  IF magnitude_a2 = 0 \/ magnitude_b2 = 0
        THEN [num |-> 0, den |-> 1]
        ELSE [num |-> dot_product, den |-> magnitude_a2 * magnitude_b2]

SimLess(s, t) == SignedSquare(s.num) * t.den < SignedSquare(t.num) * s.den

SimEq(s, t) == SignedSquare(s.num) * t.den = SignedSquare(t.num) * s.den

\* Python's tuple order on (sim, index) pairs
SimPairLess(p, q) == SimLess(p[1], q[1]) \/ (SimEq(p[1], q[1]) /\ p[2] < q[2])

RECURSIVE SimInsertDesc(_, _)
SimInsertDesc(p, sorted) ==
    IF sorted = <<>> THEN <<p>>
    ELSE IF SimPairLess(Head(sorted), p)
         THEN <<p>> \o sorted
         ELSE <<Head(sorted)>> \o SimInsertDesc(p, Tail(sorted))

RECURSIVE SimSortDesc(_)
\* similarity.sort(reverse=True)
SimSortDesc(pairs) ==
    IF pairs = <<>> THEN <<>> ELSE SimInsertDesc(Head(pairs), SimSortDesc(Tail(pairs)))

\* -------------------------------------------------------- semantic_search
\* the second component of the tuple appended at app.py:69: the literal 1,
\* whatever the loop index i is
AppendedIndex(i) == 1

RECURSIVE SimilarityFrom(_, _, _)
\* the list similarity after the loop (app.py:66-69); i is the 0-based index
SimilarityFrom(embs, query_emb, i) ==
    IF i >= Len(embs) THEN <<>>
    ELSE <<<<consine_similarity(query_emb, embs[i + 1]), AppendedIndex(i)>>>>
         \o SimilarityFrom(embs, query_emb, i + 1)

\* similarity[:k] after similarity.sort(reverse=True) (app.py:71-72)
SemanticRanked(embs, query_emb, k) ==
    Take(SimSortDesc(SimilarityFrom(embs, query_emb, 0)), k)

\* documents[i] raises IndexError for some index of top
IndexError(docs, top) == \E r \in 1..Len(top) : top[r][2] >= Len(docs)

Returned(docs, by) == [raised |-> FALSE, docs |-> docs, by |-> by]

Raised(by) == [raised |-> TRUE, docs |-> <<>>, by |-> by]

\* a fallback that asks keyword_search for one document fewer
FallbackShort(docs, query, k) ==
    Returned(keyword_search(docs, query, IF k > 0 THEN k - 1 ELSE 0), "keyword")

\* return keyword_search(query,k) (app.py:65)
Fallback(docs, query, k) == Returned(keyword_search(docs, query, k), "keyword")

\* semantic_search(query, k) from app.py:64 on: docs and embs are the globals
\* after load_documents(), query_emb is what get_embedding returned
semantic_search(docs, embs, query, query_emb, k) ==
    IF query_emb = None \/ embs = None
    THEN Fallback(docs, query, k)
    ELSE LET top == SemanticRanked(Get(embs), Get(query_emb), k)
         IN  IF IndexError(docs, top)
             THEN Raised("semantic")
             ELSE Returned([r \in 1..Len(top) |-> docs[top[r][2] + 1]], "semantic")

\* ------------------------------------------------- inputs of direct calls
DocPool ==
    { <<>>,
      <<"a">>,
      <<"A", "b">>,
      <<"a", " ", "b">>,
      <<"b", " ", "A">>,
      <<"a", "a", "a">>,
      Spaced("A", ManyTokens),
      Run("a", LongDoc - 1),
      Run("a", LongDoc) }

QueryPool ==
    { <<>>,
      <<" ">>,
      <<"a">>,
      <<"B">>,
      <<"a", "a">>,
      <<"A", " ", "b">>,
      <<" ", "a", " ">>,
      <<"a", "b">>,
      Spaced("a", ManyTokens) }

SeqsUpTo(pool, n) == UNION { [1..m -> pool] : m \in 0..n }

Corpora == SeqsUpTo(DocPool, MaxDocs)

\* embedding vectors: stored ones, and the ones embed_content answers with
EmbPool == { <<0, 0>>, <<1, 0>>, <<-1, 2>> }

QueryEmbPool == { <<1, 0>>, <<1, 2>> }

\* a short corpus pool for the calls of semantic_search
SemDocPool == { <<"a", " ", "b">>, <<"c">> }

SemQueryPool == { <<"A">>, <<"d">> }

NoCall == [fn |-> "none", nth |-> 0, query_emb |-> None, result |-> <<>>]

\* ------------------------------------------------------- the process
Threads == {"w1", "w2"}

NoInfoMsg == "I don't have information about that. Please ask about doctors, facilities, or hospital services."
TroubleMsg == "I'm having trouble processing your request. Please try again in a moment."

\* what generate_answer returns: one of its two fixed messages, or the text
\* of the model's response
FixedAnswer(msg) == [fixed |-> msg, text |-> <<>>]
Generated(text) == [fixed |-> "", text |-> text]

NoLoc == [query |-> <<>>, fn |-> "none", k |-> 0, relevant_docs |-> <<>>]
NoResp == [status |-> 0, error |-> "", answer |-> FixedAnswer("")]
NoBody == [kind |-> "none", has_question |-> FALSE, question |-> <<>>, other |-> FALSE]
NoObs == [body |-> NoBody, entered |-> FALSE, exc |-> "none", retrieval |-> "none",
          k |-> 0, emb |-> "none", gen |-> "none", context |-> <<>>, prior |-> {}]

\* the threads' variables before the first request
ProcIdle ==
    /\ pc = [t \in Threads |-> "idle"]
    /\ loc = [t \in Threads |-> NoLoc]
    /\ resp = [t \in Threads |-> NoResp]
    /\ obs = [t \in Threads |-> NoObs]
    /\ served = {}
    /\ nreq = 0
    /\ docReads = 0
    /\ firstLoad = None

\* the two files a process can find: a corpus with its aligned embeddings, the
\* embeddings absent, unparsable or an empty list, or no corpus at all
D1 == <<"a", " ", "b">>
D2 == <<"c">>
D3 == <<"A">>
\* a corpus with more documents matching one query than either search returns
ManyDocs == [i \in 1..11 |-> IF i % 2 = 1 THEN D1 ELSE D3]
ProcCorpora == { <<>>, <<D1>>, <<D1, D2>>, <<D2, D3, D1>>, ManyDocs }
Aligned(docs) == [i \in 1..Len(docs) |-> IF i = 1 THEN <<1, 0>> ELSE <<-1, 2>>]

\* request bodies of POST /api/chat
Questions == { <<>>, <<" ">>, <<"a">>, <<" ", "A", " ">>, <<"d">> }
Bodies ==
    { [kind |-> "absent", has_question |-> FALSE, question |-> <<>>, other |-> FALSE],
      [kind |-> "invalid", has_question |-> FALSE, question |-> <<>>, other |-> FALSE],
      [kind |-> "null", has_question |-> FALSE, question |-> <<>>, other |-> FALSE],
      [kind |-> "object", has_question |-> FALSE, question |-> <<>>, other |-> FALSE],
      [kind |-> "object", has_question |-> FALSE, question |-> <<>>, other |-> TRUE] }
    \cup { [kind |-> "object", has_question |-> TRUE, question |-> q, other |-> FALSE] :
           q \in Questions }

\* texts generate_content answers with
AnswerTexts == { <<"x">>, <<"y", " ">> }

Init ==
    /\ docsFile \in {Missing} \cup {File(c) : c \in ProcCorpora}
    /\ embFile \in IF docsFile.status = "ok"
                   THEN {Missing, Malformed, File(<<>>), File(Aligned(docsFile.content))}
                   ELSE {Missing}
    /\ documents = None
    /\ doc_embeddings = None
    /\ call = NoCall
    /\ ProcIdle

\* request.json (flask): an unparsable body raises BadRequest; a body that is
\* not sent as JSON gives None or raises, depending on the flask version
RequestJson(body) ==
    CASE body.kind = "invalid" -> {"raise"}
      [] body.kind = "absent" -> {"none", "raise"}
      [] OTHER -> {"data"}

\* not data (app.py:750): None, or a dict without keys
NotData(body, json) ==
    \/ json = "none"
    \/ body.kind = "null"
    \/ (body.kind = "object" /\ ~body.has_question /\ ~body.other)

\* data.get('question', '').strip() (app.py:753)
QuestionOf(body) == IF body.has_question THEN Strip(body.question) ELSE <<>>

\* a query lower-cased and trimmed: what identifies a repeated question
Normalize(query) == Strip(Lower(query))

\* the except clause of chat (app.py:765-769)
ServerError == [status |-> 500, error |-> "Server error. Please try again.",
                answer |-> FixedAnswer("")]

BadRequest(msg) == [status |-> 400, error |-> msg, answer |-> FixedAnswer("")]

Ok(answer) == [status |-> 200, error |-> "", answer |-> answer]

\* a test that sends every request to semantic_search
AlwaysSemantic(embs) == TRUE

\* if doc_embeddings: (app.py:94)
Truthy(embs) == embs # None /\ Get(embs) # <<>>

\* chat (app.py:746-764) up to the first line of generate_answer (app.py:94),
\* which picks the search function from doc_embeddings as it is now
ChatRecv(t) ==
    /\ pc[t] = "idle"
    /\ nreq < MaxRequests
    /\ nreq' = nreq + 1
    /\ \E body \in Bodies : \E json \in RequestJson(body) :
          LET o == [NoObs EXCEPT !.body = body]
              question == QuestionOf(body)
          IN  IF json = "raise"
              THEN /\ resp' = [resp EXCEPT ![t] = ServerError]
                   /\ obs' = [obs EXCEPT ![t] = [o EXCEPT !.exc = "request"]]
                   /\ UNCHANGED <<pc, loc>>
              ELSE IF NotData(body, json)
              THEN /\ resp' = [resp EXCEPT ![t] = BadRequest("Invalid request")]
                   /\ obs' = [obs EXCEPT ![t] = o]
                   /\ UNCHANGED <<pc, loc>>
              ELSE IF question = <<>>
              THEN /\ resp' = [resp EXCEPT ![t] = BadRequest("No question provided")]
                   /\ obs' = [obs EXCEPT ![t] = o]
                   /\ UNCHANGED <<pc, loc>>
              ELSE /\ resp' = [resp EXCEPT ![t] = NoResp]
                   /\ obs' = [obs EXCEPT ![t] =
                                [o EXCEPT !.entered = TRUE,
                                          !.prior = {s[2] : s \in {x \in served :
                                                       x[1] = Normalize(question)}}]]
                   /\ loc' = [loc EXCEPT ![t] =
                                [NoLoc EXCEPT !.query = question,
                                              !.fn = IF Truthy(doc_embeddings)
                                                     THEN "semantic" ELSE "keyword",
                                              !.k = IF Truthy(doc_embeddings)
                                                    THEN 5 ELSE 10]]
                   /\ pc' = [pc EXCEPT ![t] = "load"]
    /\ UNCHANGED <<globals, call, served, docReads, firstLoad>>

\* an exception leaves generate_answer and is caught by chat
Raise(t) ==
    /\ resp' = [resp EXCEPT ![t] = ServerError]
    /\ obs' = [obs EXCEPT ![t].exc = "generate_answer"]
    /\ pc' = [pc EXCEPT ![t] = "idle"]

\* the globals after a load_documents call that returned
Completed(docs, embs) == IF firstLoad = None THEN Some(<<docs, embs>>) ELSE firstLoad

\* load_documents: if documents is None (app.py:25)
LoadCheck(t) ==
    /\ pc[t] = "load"
    /\ IF documents = None
       THEN /\ pc' = [pc EXCEPT ![t] = "read_docs"]
            /\ UNCHANGED firstLoad
       ELSE /\ pc' = [pc EXCEPT ![t] = "search"]
            /\ firstLoad' = Completed(documents, doc_embeddings)
    /\ UNCHANGED <<globals, call, loc, resp, obs, served, nreq, docReads>>

\* load_documents: documents = json.load(f) (app.py:27-28)
ReadDocs(t) ==
    /\ pc[t] = "read_docs"
    /\ IF docsFile.status = "ok"
       THEN /\ documents' = Some(docsFile.content)
            /\ docReads' = docReads + 1
            /\ pc' = [pc EXCEPT ![t] = "read_emb"]
            /\ UNCHANGED <<resp, obs>>
       ELSE /\ Raise(t)
            /\ UNCHANGED <<documents, docReads>>
    /\ UNCHANGED <<docsFile, embFile, doc_embeddings, call, loc, served, nreq, firstLoad>>

\* load_documents: the try block on the embeddings file (app.py:29-35); only
\* FileNotFoundError is caught
ReadEmb(t) ==
    /\ pc[t] = "read_emb"
    /\ IF embFile.status = "malformed"
       THEN /\ Raise(t)
            /\ UNCHANGED <<doc_embeddings, firstLoad>>
       ELSE /\ doc_embeddings' = (IF embFile.status = "ok"
                                  THEN Some(embFile.content) ELSE None)
            /\ firstLoad' = Completed(documents, doc_embeddings')
            /\ pc' = [pc EXCEPT ![t] = "search"]
            /\ UNCHANGED <<resp, obs>>
    /\ UNCHANGED <<docsFile, embFile, documents, call, loc, served, nreq, docReads>>

\* what get_embedding can return (app.py:47-58): None when embed_content
\* raises, else the embedding; keyword_search does not call it
EmbeddingOutcomes(fn) ==
    IF fn = "semantic" THEN {None} \cup {Some(v) : v \in QueryEmbPool} ELSE {None}

\* semantic_search from app.py:63, or keyword_search from app.py:76, after
\* load_documents returned.  The load_documents call of a keyword_search
\* reached through app.py:65 finds documents loaded and does nothing.
Search(t) ==
    /\ pc[t] = "search"
    /\ \E query_emb \in EmbeddingOutcomes(loc[t].fn) :
          LET ret == IF loc[t].fn = "semantic"
                     THEN semantic_search(Get(documents), doc_embeddings,
                                          loc[t].query, query_emb, loc[t].k)
                     ELSE Returned(keyword_search(Get(documents), loc[t].query, loc[t].k),
                                   "keyword")
              o == [obs[t] EXCEPT !.retrieval = ret.by, !.k = loc[t].k,
                                  !.emb = IF loc[t].fn # "semantic" THEN "none"
                                          ELSE IF query_emb = None THEN "failed" ELSE "ok"]
          IN  IF ret.raised
              THEN /\ resp' = [resp EXCEPT ![t] = ServerError]
                   /\ obs' = [obs EXCEPT ![t] = [o EXCEPT !.exc = "generate_answer"]]
                   /\ pc' = [pc EXCEPT ![t] = "idle"]
                   /\ UNCHANGED loc
              ELSE /\ obs' = [obs EXCEPT ![t] = o]
                   /\ loc' = [loc EXCEPT ![t].relevant_docs = ret.docs]
                   /\ pc' = [pc EXCEPT ![t] = "generate"]
                   /\ UNCHANGED resp
    /\ UNCHANGED <<globals, call, served, nreq, docReads, firstLoad>>

\* a test that never takes the no-passages branch
NeverEmpty(relevant_docs) == FALSE

\* if not relevant_docs: (app.py:99)
NoPassages(relevant_docs) == relevant_docs = <<>>

\* the separator of app.py:102: two newlines, a blank line
BlankLine == <<"\n", "\n">>

RECURSIVE Join(_, _)
\* sep.join(parts)
Join(sep, parts) ==
    IF parts = <<>> THEN <<>>
    ELSE IF Len(parts) = 1 THEN parts[1]
    ELSE parts[1] \o sep \o Join(sep, Tail(parts))

\* a context built from the three top-ranked passages only
ContextTop3(relevant_docs) == Join(BlankLine, Take(relevant_docs, 3))

\* context = '\n\n'.join(relevant_docs) (app.py:102)
Context(relevant_docs) == Join(BlankLine, relevant_docs)

\* what generate_content can do (app.py:115-121): raise, or answer with a text
GenerationOutcomes(relevant_docs) ==
    IF NoPassages(relevant_docs)
    THEN {[gen |-> "none", answer |-> FixedAnswer(NoInfoMsg)]}
    ELSE {[gen |-> "failed", answer |-> FixedAnswer(TroubleMsg)]}
         \cup {[gen |-> "ok", answer |-> Generated(Strip(text))] : text \in AnswerTexts}

\* generate_answer from app.py:99 to its return, and the 200 of chat
Generate(t) ==
    /\ pc[t] = "generate"
    /\ \E out \in GenerationOutcomes(loc[t].relevant_docs) :
          /\ obs' = [obs EXCEPT ![t].gen = out.gen,
                                ![t].context = IF out.gen = "none" THEN <<>>
                                               ELSE Context(loc[t].relevant_docs)]
          /\ resp' = [resp EXCEPT ![t] = Ok(out.answer)]
          /\ served' = served \cup {<<Normalize(loc[t].query), out.answer>>}
    /\ pc' = [pc EXCEPT ![t] = "idle"]
    /\ UNCHANGED <<globals, call, loc, nreq, docReads, firstLoad>>

Next ==
    \E t \in Threads :
        \/ ChatRecv(t)
        \/ LoadCheck(t)
        \/ ReadDocs(t)
        \/ ReadEmb(t)
        \/ Search(t)
        \/ Generate(t)

Spec == Init /\ [][Next]_vars

\* ------------------------------------------ direct calls of keyword_search
InitKw ==
    /\ docsFile \in {File(c) : c \in Corpora}
    /\ embFile = Missing
    /\ documents = Some(docsFile.content)
    /\ doc_embeddings = None
    /\ call = NoCall
    /\ ProcIdle

KeywordSearchCall ==
    /\ call = NoCall
    /\ \E query \in QueryPool, k \in 0..MaxK :
          call' = [fn |-> "keyword_search", nth |-> 1, query |-> query, k |-> k,
                   query_emb |-> None,
                   ranked |-> KeywordRanked(Get(documents), query, k),
                   result |-> keyword_search(Get(documents), query, k)]
    /\ UNCHANGED <<globals, procVars>>

NextKw == KeywordSearchCall

SpecKw == InitKw /\ [][NextKw]_vars

\* ----------------------------------------- direct calls of semantic_search
\* documents and doc_embeddings as load_documents leaves them: the embeddings
\* aligned with the documents, or None when their file is absent
InitSem ==
    /\ docsFile \in {File(c) : c \in SeqsUpTo(SemDocPool, MaxDocs)}
    /\ embFile \in {Missing} \cup {File(e) : e \in [1..Len(docsFile.content) -> EmbPool]}
    /\ documents = Some(docsFile.content)
    /\ doc_embeddings = (IF embFile = Missing THEN None ELSE Some(embFile.content))
    /\ call = NoCall
    /\ ProcIdle

\* one call semantic_search(query, k), the first or the second of a process;
\* get_embedding answers None or a vector
SemanticSearchCall ==
    /\ call.nth \in {0, 1}
    /\ \E query \in SemQueryPool, k \in 0..MaxK,
          query_emb \in {None} \cup {Some(v) : v \in QueryEmbPool} :
          LET ret == semantic_search(Get(documents), doc_embeddings, query, query_emb, k)
          IN  call' = [fn |-> "semantic_search", query |-> query, k |-> k,
                       query_emb |-> query_emb, raised |-> ret.raised,
                       result |-> ret.docs, by |-> ret.by,
                       nth |-> call.nth + 1,
                       failed_before |-> (call.nth = 1 /\ call.query_emb = None),
                       fallback_before |-> (IF call.nth = 1 /\ call.query_emb = None
                                            THEN Len(call.result) ELSE 0)]
    /\ UNCHANGED <<globals, procVars>>

NextSem == SemanticSearchCall

SpecSem == InitSem /\ [][NextSem]_vars

\* ------------------------------------------------------------ C1 and C2
\* the loaded document list
Docs == Get(documents)

\* the corpus positions (1-based) whose keyword score for the call's query is > 0
PositivePositions ==
    {i \in 1..Len(Docs) : Score(call.query, Docs[i]) > 0}

\* C1: keyword_search(query, k) returns only loaded documents whose score is
\* > 0, each corpus position at most once, and exactly
\* min(k, number of positive-scoring documents) of them.
C1_KeywordSearchContract ==
    call.fn = "keyword_search" =>
        /\ Len(call.result) = Min(call.k, Cardinality(PositivePositions))
        /\ \E f \in [1..Len(call.result) -> PositivePositions] :
              /\ \A r1, r2 \in 1..Len(call.result) : f[r1] = f[r2] => r1 = r2
              /\ \A r \in 1..Len(call.result) : call.result[r] = Docs[f[r]]

\* C1 witness: k exceeds the number of positive-scoring documents, all of them
\* are returned and a zero-scoring document is left out.
C1_Witness ==
    /\ call.fn = "keyword_search"
    /\ call.k > Len(call.result)
    /\ Len(call.result) >= 1
    /\ Len(call.result) < Len(Docs)

\* the 0-based corpus index i stands before the index j in scored[:k]
RankedBefore(i, j) ==
    \E r1, r2 \in 1..Len(call.ranked) :
        r1 < r2 /\ call.ranked[r1][2] = i /\ call.ranked[r2][2] = j

InRanked(i) == \E r \in 1..Len(call.ranked) : call.ranked[r][2] = i

\* document i holds the whole lower-cased query, document j does not and
\* matches individual keywords only
PhrasePair(i, j) ==
    /\ HasPhrase(call.query, Docs[i + 1])
    /\ ~HasPhrase(call.query, Docs[j + 1])
    /\ KwCount(call.query, Docs[j + 1]) > 0

\* C2 as stated: a document holding the whole query scores at least as much as
\* any document that matches individual keywords only, however many times.
C2_PhraseAlwaysFirst ==
    call.fn = "keyword_search" =>
        \A i, j \in 0..(Len(Docs) - 1) :
            PhrasePair(i, j) =>
                Score(call.query, Docs[i + 1]) >= Score(call.query, Docs[j + 1])

\* C2 amended: the phrase document A stands before the keyword-only document
\* B in the result when B has fewer than count(A) + 100 keyword occurrences,
\* and B stands before A when it has more.
C2_PhraseFirstWithinBonus ==
    call.fn = "keyword_search" =>
        \A i, j \in 0..(Len(Docs) - 1) :
            PhrasePair(i, j) =>
                LET cA == KwCount(call.query, Docs[i + 1])
                    cB == KwCount(call.query, Docs[j + 1])
                IN  /\ (cB < cA + Bonus /\ InRanked(j)) => RankedBefore(i, j)
                    /\ (cB > cA + Bonus /\ InRanked(i)) => RankedBefore(j, i)

\* C2 witness: a phrase document and a keyword-only document are both in the
\* result, the phrase document first although the other one has at least as
\* many keyword occurrences and sits later in the corpus.
C2_Witness ==
    /\ call.fn = "keyword_search"
    /\ \E i, j \in 0..(Len(Docs) - 1) :
          /\ PhrasePair(i, j)
          /\ i < j
          /\ KwCount(call.query, Docs[j + 1]) >= KwCount(call.query, Docs[i + 1])
          /\ RankedBefore(i, j)

\* ------------------------------------------------------------------- C3
\* the similarity of the stored embedding at corpus position i (1-based) to
\* the call's query embedding
SimAt(i) == consine_similarity(Get(call.query_emb), Get(doc_embeddings)[i])

\* idx lists distinct corpus positions in descending order of similarity, and
\* no position left out is more similar than one listed
IsTopBySimilarity(idx) ==
    /\ \A r1, r2 \in 1..Len(idx) : idx[r1] = idx[r2] => r1 = r2
    /\ \A r \in 1..(Len(idx) - 1) : ~SimLess(SimAt(idx[r]), SimAt(idx[r + 1]))
    /\ \A r \in 1..Len(idx), i \in 1..Len(Docs) :
          (\A r2 \in 1..Len(idx) : idx[r2] # i) => ~SimLess(SimAt(idx[r]), SimAt(i))

\* C3: with embeddings loaded and the query embedded, semantic_search(query, k)
\* returns the min(k, N) documents with the most similar embeddings, most
\* similar first, each the document at its embedding's index, none repeated.
C3_SemanticTopK ==
    (call.fn = "semantic_search" /\ call.query_emb # None /\ doc_embeddings # None) =>
        /\ ~call.raised
        /\ Len(call.result) = Min(call.k, Len(Docs))
        /\ \E idx \in [1..Len(call.result) -> 1..Len(Docs)] :
              /\ IsTopBySimilarity(idx)
              /\ \A r \in 1..Len(idx) : call.result[r] = Docs[idx[r]]

\* ------------------------------------------------------------------- C4
\* C4: when get_embedding returns None, semantic_search(query, k) does not
\* raise and returns what keyword_search(query, k) returns, which is not empty
\* when k >= 1 and some document has a positive keyword score; a later call
\* whose embedding succeeds is scored by similarity again.
C4_EmbeddingFailureFallsBack ==
    call.fn = "semantic_search" =>
        /\ call.query_emb = None =>
              /\ ~call.raised
              /\ call.by = "keyword"
              /\ call.result = keyword_search(Docs, call.query, call.k)
              /\ (call.k >= 1 /\ PositivePositions # {}) => call.result # <<>>
        /\ (call.failed_before /\ call.query_emb # None /\ doc_embeddings # None) =>
              call.by = "semantic"

\* C4 witness: the first call fell back to a non-empty keyword result, and
\* the second call, whose embedding succeeded, took the similarity path.
C4_Witness ==
    /\ call.fn = "semantic_search"
    /\ call.nth = 2
    /\ call.failed_before
    /\ call.fallback_before >= 1
    /\ call.query_emb # None
    /\ call.by = "semantic"

\* ------------------------------------------------------------------- C5
\* C5: generate_answer never raises: no exception of retrieval or generation
\* reaches the chat handler, whatever the files and the two APIs do.
C5_GenerateAnswerNeverRaises == \A t \in Threads : obs[t].exc # "generate_answer"

\* ------------------------------------------------------------------- C6
\* the generated answers already returned for the normalized query of the
\* request of t, as they stood when that request arrived
PriorGenerated(t) == {a \in obs[t].prior : a.fixed = ""}

\* C6: a request whose normalized query already got a generated answer makes
\* no call of the generation API and returns that answer.
C6_RepeatServedWithoutGeneration ==
    \A t \in Threads :
        PriorGenerated(t) # {} =>
            /\ obs[t].gen = "none"
            /\ resp[t].status = 200 => resp[t].answer \in PriorGenerated(t)

\* ------------------------------------------------------------------- C7
\* the request of t went through generate_answer and got its 200
Answered(t) == pc[t] = "idle" /\ obs[t].entered /\ resp[t].status = 200

\* C7: when retrieval returns no passages generate_answer returns the fixed
\* no-information message without calling the generation API, and a request
\* whose query got that message before still goes through retrieval.
C7_NoPassagesFallback ==
    \A t \in Threads :
        Answered(t) =>
            /\ obs[t].retrieval # "none"
            /\ loc[t].relevant_docs = <<>> =>
                  /\ resp[t].answer = FixedAnswer(NoInfoMsg)
                  /\ obs[t].gen = "none"

\* C7 witness: a query that got the no-information message before is
\* answered with it again, after a retrieval that returned nothing.
C7_Witness ==
    \E t \in Threads :
        /\ Answered(t)
        /\ FixedAnswer(NoInfoMsg) \in obs[t].prior
        /\ obs[t].retrieval = "keyword"
        /\ loc[t].relevant_docs = <<>>
        /\ resp[t].answer = FixedAnswer(NoInfoMsg)

\* ------------------------------------------------------------------- C8
\* the body is missing or not valid JSON, or its question is absent, empty or
\* whitespace only
BadBody(body) ==
    \/ body.kind \in {"absent", "invalid"}
    \/ (body.kind = "object" /\ QuestionOf(body) = <<>>)

\* C8: a request with such a body is answered 400 without generate_answer
\* being invoked, and an empty question with the error No question provided.
C8_BadBodyIs400 ==
    \A t \in Threads :
        (resp[t].status # 0 /\ BadBody(obs[t].body)) =>
            /\ resp[t].status = 400
            /\ ~obs[t].entered
            /\ (obs[t].body.has_question /\ obs[t].body.question = <<>>) =>
                  resp[t].error = "No question provided"

\* ------------------------------------------------------------------- C9
\* C9: the documents file is parsed into documents at most once, and nothing
\* changes documents or doc_embeddings after the first load_documents call
\* that returned.
C9_LoadedAtMostOnce ==
    /\ docReads <= 1
    /\ firstLoad # None => Get(firstLoad) = <<documents, doc_embeddings>>

\* ------------------------------------------------------------------ C10
\* the embeddings file holds one embedding per document, and at least one
EmbeddingsPresent ==
    /\ docsFile.status = "ok"
    /\ embFile.status = "ok"
    /\ embFile.content # <<>>
    /\ Len(embFile.content) = Len(docsFile.content)

\* C10: with the embeddings file present and no failure of the embedding API,
\* every request, the first included, retrieves by semantic_search with k = 5.
C10_SemanticWheneverAvailable ==
    \A t \in Threads :
        (EmbeddingsPresent /\ obs[t].retrieval # "none" /\ obs[t].emb # "failed") =>
            /\ obs[t].retrieval = "semantic"
            /\ obs[t].k = 5

\* ------------------------------------------------------------------ C11
\* the position of the first blank line of text at or after position i, or 0
FirstBlankLine(text, i) ==
    LET at == {j \in i..Len(text) : MatchAt(text, BlankLine, j)}
    IN  IF at = {} THEN 0 ELSE CHOOSE j \in at : \A j2 \in at : j <= j2

RECURSIVE PassagesFrom(_, _)
\* the passages of a context from position i on: its parts between blank lines
PassagesFrom(text, i) ==
    LET j == FirstBlankLine(text, i)
    IN  IF j = 0 THEN <<SubSeq(text, i, Len(text))>>
        ELSE <<SubSeq(text, i, j - 1)>> \o PassagesFrom(text, j + Len(BlankLine))

Passages(text) == PassagesFrom(text, 1)

\* the request of t called the generation API with a prompt
Prompted(t) == obs[t].gen # "none"

\* C11 as stated: the context of the prompt holds at most 3 passages, whatever
\* the retrieval returned.
C11_ContextAtMostThree ==
    \A t \in Threads : Prompted(t) => Len(Passages(obs[t].context)) <= 3

\* C11 amended: the context of the prompt holds every retrieved passage, in
\* rank order, separated by blank lines: at most 5 after semantic_search and
\* at most 10 after keyword_search.
C11_ContextAllRetrieved ==
    \A t \in Threads :
        Prompted(t) =>
            LET passages == Passages(obs[t].context)
            IN  /\ passages = loc[t].relevant_docs
                /\ Len(passages) <= (IF obs[t].retrieval = "semantic" THEN 5 ELSE 10)

\* C11 witness: a keyword retrieval cut at 10 passages, all 10 in the context.
C11_Witness ==
    \E t \in Threads :
        /\ Prompted(t)
        /\ obs[t].retrieval = "keyword"
        /\ Len(Get(documents)) > 10
        /\ Len(Passages(obs[t].context)) = 10

\* ------------------------------------------------------------------ C12
\* C12: with the embeddings file absent, loading raises nothing,
\* doc_embeddings is None in every state, every request is served by
\* keyword_search and none calls the embedding API.
C12_NoEmbeddingsKeywordOnly ==
    (docsFile.status = "ok" /\ embFile.status = "missing") =>
        /\ doc_embeddings = None
        /\ \A t \in Threads :
              /\ obs[t].exc # "generate_answer"
              /\ loc[t].fn # "semantic"
              /\ obs[t].retrieval \in {"none", "keyword"}
              /\ obs[t].emb = "none"

\* C12 witness: the embeddings file is absent, the documents are loaded, and
\* a request that arrived after another one was answered has been answered
\* from a keyword retrieval.
C12_Witness ==
    /\ docsFile.status = "ok"
    /\ embFile.status = "missing"
    /\ documents # None
    /\ doc_embeddings = None
    /\ \E t \in Threads :
          /\ Answered(t)
          /\ obs[t].prior # {}
          /\ obs[t].retrieval = "keyword"
          /\ loc[t].relevant_docs # <<>>

====
